---- MODULE Spec2Model ----
(***************************************************************************)
(* A model of the evolutionary optimisation engine of the                  *)
(* Diffusiophoresis-GA-Optimizer: Variable and Equation objects on a heap  *)
(* (object identity is modelled, because the engine passes references),    *)
(* the GeneticAlgorithm engine of src/src/genetic_algorithm.py with its    *)
(* thread pool of fitness workers and its fitness cache, and the           *)
(* tournament selection strategies.                                        *)
(*                                                                         *)
(* Numbers: a float is modelled by an integer; one unit of a Variable's    *)
(* value is 0.001, so that the engine's step mutation, which draws a step  *)
(* from [-0.001, 0.001], moves a value by at most one unit.  A rate is in  *)
(* thousandths.                                                            *)
(***************************************************************************)
EXTENDS Integers, Sequences, FiniteSets, TLC

\* ------------------------------------------------------------------ bounds
MaxPopulationSize == 2
MaxGenerations == 2
MaxValue == 2
MaxTournamentPopulation == 7
MaxLoopGenerations == 33
MaxManagedPopulation == 12
MaxWideValue == 20

\* ------------------------------------------------------- program constants
TournamentSize == 6
CrossoverRate == 700
MutationRate == 10
RateOne == 1000
StepSize == 1
\* the limits of an adapted mutation rate, 0.01 and 0.5, in thousandths
MinMutationRate == 10
MaxMutationRate == 500
\* the smallest of the stagnation limits the specification names
StagnationThreshold == 30
\* math.log(5), counted in sixths of itself as every gradient is
LnFive == 6
\* the mutation rate the engine's tests configure, 0.1
TestMutationRate == 100
\* Floating point: a float has a significand of FloatBits bits and is held as
\* a whole number of units of 2^-FloatScale.  Five bits round the quotients
\* by 3, 5, 7 and 9 as the 53 bits of a Python float do, since the binary
\* expansions of these quotients have periods that divide 53 - 5.
FloatBits == 5
FloatScale == 12

None == 0

VARIABLES
  registry,         \* VariableDefinitions.variables, which a new Equation copies
  variables,        \* heap: Variable objects, indexed by identity
  equations,        \* heap: Equation objects; each the ordered values of _variables
  generations, population_size, crossover_rate, mutation_rate,
  population, fitness_scores, best_equation, cached_fitness,
  new_population, generation,
  parent1, parent2, child1, child2,
  pc,               \* position of the thread that called run()
  tasks,            \* the thread pool's tasks of evaluate_population_fitness
  raised,           \* the exception that ended run(), or "none"
  result,           \* what run() returned
  records,          \* what the broadcaster's subscriber has received
  fitness_calls,    \* ghost: how often the fitness function was computed
  evaluated,        \* ghost: the Equation contents evaluate_fitness was given
  call,             \* unit specification: the last call on a Variable
  sel               \* selection specification: state of a tournament selection

vars == << registry, variables, equations, generations, population_size, crossover_rate,
           mutation_rate, population, fitness_scores, best_equation,
           cached_fitness, new_population, generation, parent1, parent2,
           child1, child2, pc, tasks, raised, result, records, fitness_calls,
           evaluated, call, sel >>

\* ------------------------------------------------------------ sequences
Range(s) == { s[i] : i \in DOMAIN s }

RECURSIVE SumSeq(_)
SumSeq(s) == IF s = << >> THEN 0 ELSE s[1] + SumSeq(Tail(s))

RECURSIVE Dedup(_)
\* the elements of s in the order of their first occurrence
Dedup(s) ==
  IF s = << >> THEN << >>
  ELSE LET r == Dedup(SubSeq(s, 1, Len(s) - 1))
       IN IF s[Len(s)] \in Range(r) THEN r ELSE Append(r, s[Len(s)])

RECURSIVE Flatten(_)
Flatten(ss) == IF ss = << >> THEN << >> ELSE ss[1] \o Flatten(Tail(ss))

IndexOf(s, x) == CHOOSE i \in DOMAIN s : s[i] = x

Max(a, b) == IF a >= b THEN a ELSE b
Min(a, b) == IF a <= b THEN a ELSE b

\* ----------------------------------------------------------- Variable
\* the order of Python's string comparison on the names used
NameRank(n) ==
  CASE n = "c_initial" -> 1
    [] n = "channel_height" -> 2
    [] n = "chemiphoretic_gradient" -> 3
    [] n = "diffusiophoretic_mobility" -> 4
    [] n = "diffusiophoretic_velocity" -> 5
    [] n = "elementary_charge" -> 6
    [] OTHER -> 7

Variable(variable_name, value, is_constant, min_range, max_range) ==
  [ name |-> variable_name, value |-> value, is_constant |-> is_constant,
    min_range |-> min_range, max_range |-> max_range ]

\* set_value as it would be with the constant guarded only in safe mode
Variable_set_value_writes_constant(var, value, safe_mode) ==
  IF var.is_constant /\ safe_mode
  THEN [ var |-> var, raised |-> "ValueError" ]
  ELSE [ var |-> [ var EXCEPT !.value = value ], raised |-> "none" ]

\* set_value as it would be with a guard that returns and never raises
Variable_set_value_never_raises(var, value, safe_mode) ==
  IF var.is_constant
  THEN [ var |-> var, raised |-> "none" ]
  ELSE [ var |-> [ var EXCEPT !.value = value ], raised |-> "none" ]

\* set_value: [var |-> the Variable afterwards, raised |-> the exception]
Variable_set_value(var, value, safe_mode) ==
  IF var.is_constant
  THEN IF safe_mode
       THEN [ var |-> var, raised |-> "ValueError" ]
       ELSE [ var |-> var, raised |-> "none" ]
  ELSE [ var |-> [ var EXCEPT !.value = value ], raised |-> "none" ]

\* randomize: drawn is what np.random.uniform(min_range, max_range) returned
Variable_randomize(var, drawn) ==
  IF ~ var.is_constant THEN [ var EXCEPT !.value = drawn ] ELSE var

UniformDraws(var) == var.min_range .. var.max_range

Variable_hash(var) ==
  << var.name, var.value, var.is_constant, var.min_range, var.max_range >>

Variable_eq(a, b) ==
  /\ a.name = b.name
  /\ a.value = b.value
  /\ a.is_constant = b.is_constant
  /\ a.min_range = b.min_range
  /\ a.max_range = b.max_range

\* to_dict(): the five fields under the keys the data files use
Variable_to_dict(var) ==
  [ variable_name |-> var.name, value |-> var.value,
    is_constant |-> var.is_constant, min_range |-> var.min_range,
    max_range |-> var.max_range ]

\* the parameters of __init__ after self
InitParameters ==
  { "variable_name", "value", "is_constant", "min_range", "max_range" }

\* Variable(**keywords): Python binds the keywords to __init__'s parameters
\* and raises TypeError on a keyword that __init__ does not take
Variable_init(keywords) ==
  IF DOMAIN keywords = InitParameters
  THEN [ var |-> Variable(keywords.variable_name, keywords.value,
                          keywords.is_constant, keywords.min_range,
                          keywords.max_range),
         raised |-> "none" ]
  ELSE [ var |-> None, raised |-> "TypeError" ]

\* from_dict(data): [var |-> the Variable made, raised |-> the exception]
Variable_from_dict(data) ==
  Variable_init( ( "_variable_name" :> data.variable_name )
              @@ ( "_value" :> data.value )
              @@ ( "_is_constant" :> data.is_constant )
              @@ ( "_min_range" :> data.min_range )
              @@ ( "_max_range" :> data.max_range ) )

\* --------------------------------------------------- VariableDefinitions
\* The registry every new Equation is filled from: two of the Variables the
\* tests register, one that the engine may change, which is the fitness, and
\* one constant.
Registry ==
  << Variable("diffusiophoretic_velocity", 1, FALSE, 1, MaxValue),
     Variable("elementary_charge", 1, TRUE, 1, MaxValue) >>

\* A registry with no diffusiophoretic velocity: the fitness is computed from
\* the mobility and from the gradient that c_initial and channel_height give,
\* and the range of channel_height starts at 0.
DomainRegistry ==
  << Variable("channel_height", 1, FALSE, 0, 1),
     Variable("c_initial", 1, TRUE, 1, MaxValue),
     Variable("diffusiophoretic_mobility", 1, TRUE, 1, MaxValue) >>

\* get_variables(): a dict of fresh copies of the registry's Variables
VariableDefinitions_get_variables == registry

\* ------------------------------------------------------------ Equation
\* A heap is [v |-> the Variable objects, e |-> the Equation objects]; an
\* Equation object is the sequence of its _variables' values (Variable
\* identities) in the dict's insertion order; a value's key is its name.
Heap(v, e) == [ v |-> v, e |-> e ]

\* __init__ where get_variables() returns fresh, copies of the registry's
\* Variables: a new Equation object holding them
Equation_init(fresh, H) ==
  LET n == Len(H.v)
  IN [ H |-> Heap(H.v \o fresh, Append(H.e, [ j \in 1 .. Len(fresh) |-> n + j ])),
       id |-> Len(H.e) + 1 ]

\* Equation()
Equation_new(H) == Equation_init(VariableDefinitions_get_variables, H)

Equation_has_variable(H, e, name) ==
  \E j \in DOMAIN H.e[e] : H.v[H.e[e][j]].name = name

\* add_variable: _variables[variable.get_name()] = variable, with a Python
\* dict's order: an existing key keeps its position, a new key goes last
Equation_add_variable(H, e, vid) ==
  LET name == H.v[vid].name
      held == H.e[e]
  IN IF \E j \in DOMAIN held : H.v[held[j]].name = name
     THEN [ H EXCEPT !.e[e] = [ j \in DOMAIN held |->
                                  IF H.v[held[j]].name = name THEN vid ELSE held[j] ] ]
     ELSE [ H EXCEPT !.e[e] = Append(held, vid) ]

Equation_get_variable(H, e, name) ==
  CHOOSE vid \in Range(H.e[e]) : H.v[vid].name = name

Equation_get_value(H, e, name) == H.v[Equation_get_variable(H, e, name)].value

Equation_get_variable_list(H, e, filter_constants) ==
  IF filter_constants
  THEN SelectSeq(H.e[e], LAMBDA vid : ~ H.v[vid].is_constant)
  ELSE H.e[e]

\* set_value(name, value, safe_mode): KeyError for an unknown name
Equation_set_value(H, e, name, value, safe_mode) ==
  IF ~ Equation_has_variable(H, e, name)
  THEN [ H |-> H, raised |-> "KeyError" ]
  ELSE LET vid == Equation_get_variable(H, e, name)
           r == Variable_set_value(H.v[vid], value, safe_mode)
       IN [ H |-> [ H EXCEPT !.v[vid] = r.var ], raised |-> r.raised ]

\* what randomize_equation may draw: one value for each non-constant Variable
DrawNames(H, e) == { H.v[vid].name : vid \in { w \in Range(H.e[e]) : ~ H.v[w].is_constant } }

RandomizeDraws(H, e) ==
  { d \in [ DrawNames(H, e) -> 0 .. MaxValue ] :
      \A vid \in Range(H.e[e]) :
        ~ H.v[vid].is_constant => d[H.v[vid].name] \in UniformDraws(H.v[vid]) }

\* randomize_equation as it would be if Variable.randomize did not test
\* is_constant: a constant Variable gets another value of its range
Equation_randomize_equation_writes_constants(H, e, d) ==
  [ H EXCEPT !.v = [ vid \in DOMAIN H.v |->
                       IF vid \notin Range(H.e[e]) THEN H.v[vid]
                       ELSE IF H.v[vid].is_constant
                       THEN [ H.v[vid] EXCEPT !.value =
                                CHOOSE x \in UniformDraws(H.v[vid]) : x # H.v[vid].value ]
                       ELSE [ H.v[vid] EXCEPT !.value = d[H.v[vid].name] ] ] ]

\* randomize_equation: every Variable of the Equation is randomized in place
Equation_randomize_equation(H, e, d) ==
  [ H EXCEPT !.v = [ vid \in DOMAIN H.v |->
                       IF vid \in Range(H.e[e]) /\ ~ H.v[vid].is_constant
                       THEN Variable_randomize(H.v[vid], d[H.v[vid].name])
                       ELSE H.v[vid] ] ]

\* The content of an Equation: its (name, Variable) pairs.  A Variable record
\* holds its name, so the set of the records is the dict as __eq__ sees it.
Content(H, e) == { H.v[vid] : vid \in Range(H.e[e]) }

Equation_eq(H, a, b) ==
  /\ \A x \in Content(H, a) : \E y \in Content(H, b) : Variable_eq(x, y)
  /\ \A y \in Content(H, b) : \E x \in Content(H, a) : Variable_eq(x, y)

RECURSIVE SortedByName(_)
SortedByName(S) ==
  IF S = {} THEN << >>
  ELSE LET m == CHOOSE x \in S : \A y \in S : NameRank(x.name) <= NameRank(y.name)
       IN << m >> \o SortedByName(S \ {m})

\* the hash as it would be over the items in the dict's own order
Equation_hash_in_insertion_order(H, e) ==
  [ j \in DOMAIN H.e[e] |-> << H.v[H.e[e][j]].name, Variable_hash(H.v[H.e[e][j]]) >> ]

\* __hash__: the hash of the tuple of (name, hash(Variable)) sorted by name;
\* the tuple stands for its hash
Equation_hash(H, e) ==
  LET s == SortedByName(Content(H, e))
  IN [ j \in DOMAIN s |-> << s[j].name, Variable_hash(s[j]) >> ]

\* ------------------------------------------------------ derived quantities
formula_diffusiophoretic_velocity(diffusiophoretic_mobility, chemiphoretic_gradient) ==
  diffusiophoretic_mobility * chemiphoretic_gradient

\* The two getters return the stored Variable's value; they are reached only
\* by an Equation that stores no diffusiophoretic_velocity.
\* math.log(5 / c_initial) for the values of c_initial that occur
LogFiveOver(c_initial) ==
  CASE c_initial = 1 -> LnFive
    [] c_initial = 5 -> 0

\* abs(math.log(5 / c_initial) / channel_height), where defined
formula_chemiphoretic_gradient(c_initial, channel_height) ==
  LET quotient == LogFiveOver(c_initial) \div channel_height
  IN IF quotient < 0 THEN 0 - quotient ELSE quotient

\* the exception the gradient formula raises: 5 / 0 and x / 0 raise
\* ZeroDivisionError, math.log of a negative number ValueError
formula_chemiphoretic_gradient_raises(c_initial, channel_height) ==
  IF c_initial = 0 THEN "ZeroDivisionError"
  ELSE IF c_initial < 0 THEN "ValueError"
  ELSE IF channel_height = 0 THEN "ZeroDivisionError"
  ELSE "none"

Equation_get_diffusiophoretic_mobility(H, e) ==
  Equation_get_value(H, e, "diffusiophoretic_mobility")

\* without a stored mobility the getter reads beta_potential or cation
\* first, which no Equation here holds: get_variable raises KeyError
Equation_get_diffusiophoretic_mobility_raises(H, e) ==
  IF Equation_has_variable(H, e, "diffusiophoretic_mobility") THEN "none" ELSE "KeyError"

Equation_get_chemiphoretic_gradient(H, e) ==
  IF Equation_has_variable(H, e, "chemiphoretic_gradient")
  THEN Equation_get_value(H, e, "chemiphoretic_gradient")
  ELSE formula_chemiphoretic_gradient(Equation_get_value(H, e, "c_initial"),
                                      Equation_get_value(H, e, "channel_height"))

Equation_get_chemiphoretic_gradient_raises(H, e) ==
  IF Equation_has_variable(H, e, "chemiphoretic_gradient") THEN "none"
  ELSE IF ~ Equation_has_variable(H, e, "c_initial") THEN "KeyError"
  ELSE IF ~ Equation_has_variable(H, e, "channel_height") THEN "KeyError"
  ELSE formula_chemiphoretic_gradient_raises(Equation_get_value(H, e, "c_initial"),
                                             Equation_get_value(H, e, "channel_height"))

Equation_get_diffusiophoretic_velocity(H, e) ==
  IF Equation_has_variable(H, e, "diffusiophoretic_velocity")
  THEN Equation_get_value(H, e, "diffusiophoretic_velocity")
  ELSE formula_diffusiophoretic_velocity(Equation_get_diffusiophoretic_mobility(H, e),
                                         Equation_get_chemiphoretic_gradient(H, e))

\* the exception get_diffusiophoretic_velocity raises, "none" when it returns
Equation_get_diffusiophoretic_velocity_raises(H, e) ==
  IF Equation_has_variable(H, e, "diffusiophoretic_velocity") THEN "none"
  ELSE IF Equation_get_diffusiophoretic_mobility_raises(H, e) # "none"
  THEN Equation_get_diffusiophoretic_mobility_raises(H, e)
  ELSE Equation_get_chemiphoretic_gradient_raises(H, e)

\* ------------------------------------------------------- the fitness cache
\* cached_fitness is a Python dict keyed by Equation objects: an entry keeps
\* the key's hash as it was when the key was inserted, the key object and the
\* value.  A lookup finds an entry whose stored hash is the hash of the
\* Equation looked up and whose key is that object or is equal to it now.
Dict_matches(H, d, e) ==
  { i \in DOMAIN d :
      /\ d[i].hash = Equation_hash(H, e)
      /\ (d[i].key = e \/ Equation_eq(H, d[i].key, e)) }

Dict_contains(H, d, e) == Dict_matches(H, d, e) # {}

Dict_get(H, d, e) ==
  LET m == Dict_matches(H, d, e)
  IN d[CHOOSE i \in m : \A j \in m : i <= j].value

Dict_set(H, d, e, value) ==
  LET m == Dict_matches(H, d, e)
  IN IF m # {}
     THEN [ d EXCEPT ![CHOOSE i \in m : \A j \in m : i <= j].value = value ]
     ELSE Append(d, [ hash |-> Equation_hash(H, e), key |-> e, value |-> value ])

\* evaluate_fitness run by one thread without interruption:
\* [d |-> the cache afterwards, value |-> the fitness, computed |-> 0 or 1]
GeneticAlgorithm_evaluate_fitness(H, d, e) ==
  IF Dict_contains(H, d, e)
  THEN [ d |-> d, value |-> Dict_get(H, d, e), computed |-> 0 ]
  ELSE LET fitness == Equation_get_diffusiophoretic_velocity(H, e)
       IN [ d |-> Dict_set(H, d, e, fitness), value |-> fitness, computed |-> 1 ]

\* ------------------------------------------------------ garbage collection
\* Objects that no root reaches are dropped and the rest renumbered in the
\* order the roots reach them, so that a state is the shape of the heap.
Collect(H, roots) ==
  LET eo == Dedup(roots)
      vo == Dedup(Flatten([ i \in DOMAIN eo |-> H.e[eo[i]] ]))
  IN [ v |-> [ i \in DOMAIN vo |-> H.v[vo[i]] ],
       e |-> [ i \in DOMAIN eo |->
                 [ j \in DOMAIN H.e[eo[i]] |-> IndexOf(vo, H.e[eo[i]][j]) ] ],
       order |-> eo ]

Renamed(c, id) == IF id = None THEN None ELSE IndexOf(c.order, id)

\* ------------------------------------------------- GeneticAlgorithm: state
\* What an engine action leaves behind: the heap H, collected, and every
\* reference to an Equation renamed with it.
Commit(H, pop, newpop, p1, p2, c1, c2, best, cache) ==
  LET roots == pop \o newpop
               \o SelectSeq(<< p1, p2, c1, c2, best >>, LAMBDA x : x # None)
               \o [ i \in DOMAIN cache |-> cache[i].key ]
      c == Collect(H, roots)
  IN /\ variables' = c.v
     /\ equations' = c.e
     /\ population' = [ i \in DOMAIN pop |-> Renamed(c, pop[i]) ]
     /\ new_population' = [ i \in DOMAIN newpop |-> Renamed(c, newpop[i]) ]
     /\ parent1' = Renamed(c, p1)
     /\ parent2' = Renamed(c, p2)
     /\ child1' = Renamed(c, c1)
     /\ child2' = Renamed(c, c2)
     /\ best_equation' = Renamed(c, best)
     /\ cached_fitness' = [ i \in DOMAIN cache |->
                              [ cache[i] EXCEPT !.key = Renamed(c, cache[i].key) ] ]

TheHeap == Heap(variables, equations)

Idle == [ op |-> "none" ]

\* __init__ of GeneticAlgorithm, for every configuration within the bounds
EngineFields ==
  /\ variables = << >>
  /\ equations = << >>
  /\ generations \in 0 .. MaxGenerations
  /\ population_size \in 1 .. MaxPopulationSize
  /\ crossover_rate = CrossoverRate
  /\ mutation_rate \in { MutationRate, RateOne }
  /\ population = << >>
  /\ fitness_scores = << >>
  /\ best_equation = None
  /\ cached_fitness = << >>
  /\ new_population = << >>
  /\ generation = 0
  /\ parent1 = None /\ parent2 = None /\ child1 = None /\ child2 = None
  /\ pc = "start"
  /\ tasks = << >>
  /\ raised = "none"
  /\ result = None
  /\ records = << >>
  /\ fitness_calls = 0
  /\ evaluated = {}
  /\ call = Idle
  /\ sel = Idle

EngineInit ==
  /\ registry = Registry
  /\ EngineFields

\* the engine over a registry whose fitness formula can fail
DomainInit ==
  /\ registry = DomainRegistry
  /\ EngineFields

\* ---------------------------------------------- initialize_population
RECURSIVE RandomEquations(_, _, _, _)
\* [Equation().randomize_equation() for _ in range(n)], draws[i] the i-th draw
\* R is the registry at the time
RandomEquations(R, H, n, draws) ==
  IF n = 0 THEN [ H |-> H, ids |-> << >> ]
  ELSE LET before == RandomEquations(R, H, n - 1, draws)
           made == Equation_init(R, before.H)
       IN [ H |-> Equation_randomize_equation(made.H, made.id, draws[n]),
            ids |-> Append(before.ids, made.id) ]

\* the executor's tasks, one for each member of the population given
\* a task per member, in the order of the population; finished is the place of
\* the task among the tasks that have completed, 0 while it has not
Submitted(pop) ==
  [ i \in DOMAIN pop |-> [ state |-> "pending", fitness |-> 0, finished |-> 0 ] ]

\* the number of tasks that have completed
Completed(ts) == Cardinality({ i \in DOMAIN ts : ts[i].state = "done" })

InitializePopulation ==
  /\ pc = "start"
  /\ LET size == population_size
         blank == Equation_new(Heap(<< >>, << >>))
     IN \E draws \in [ 1 .. size -> RandomizeDraws(blank.H, blank.id) ] :
          LET made == RandomEquations(registry, TheHeap, size, draws)
          IN /\ Commit(made.H, made.ids, << >>, None, None, None, None, None, cached_fitness)
             /\ tasks' = Submitted(made.ids)
  /\ pc' = "initial_fitness"
  /\ UNCHANGED << registry, generations, population_size, crossover_rate, mutation_rate,
                  fitness_scores, generation, raised, result, records,
                  fitness_calls, evaluated, call, sel >>

\* ------------------------------------------------ evaluate_fitness, a task
\* A worker thread runs evaluate_fitness(population[i]); another thread may
\* run between its look-up in the cache and its insertion.
TaskLookup(i) ==
  /\ pc \in { "initial_fitness", "fitness" }
  /\ tasks[i].state = "pending"
  /\ evaluated' = evaluated \cup { Content(TheHeap, population[i]) }
  /\ IF Dict_contains(TheHeap, cached_fitness, population[i])
     THEN tasks' = [ tasks EXCEPT ![i] =
                       [ state |-> "done",
                         fitness |-> Dict_get(TheHeap, cached_fitness, population[i]),
                         finished |-> Completed(tasks) + 1 ] ]
     ELSE tasks' = [ tasks EXCEPT ![i].state = "computing" ]
  /\ UNCHANGED << registry, variables, equations, generations, population_size,
                  crossover_rate, mutation_rate, population, fitness_scores,
                  best_equation, cached_fitness, new_population, generation,
                  parent1, parent2, child1, child2, pc, raised, result,
                  records, fitness_calls, call, sel >>

TaskCompute(i) ==
  /\ pc \in { "initial_fitness", "fitness" }
  /\ tasks[i].state = "computing"
  /\ IF Equation_get_diffusiophoretic_velocity_raises(TheHeap, population[i]) # "none"
     THEN /\ tasks' = [ tasks EXCEPT ![i].state = "raised" ]
          /\ UNCHANGED cached_fitness
     ELSE LET fitness == Equation_get_diffusiophoretic_velocity(TheHeap, population[i])
          IN /\ cached_fitness' = Dict_set(TheHeap, cached_fitness, population[i], fitness)
             /\ tasks' = [ tasks EXCEPT ![i] = [ state |-> "done", fitness |-> fitness,
                                                 finished |-> Completed(tasks) + 1 ] ]
  /\ fitness_calls' = fitness_calls + 1
  /\ UNCHANGED << registry, variables, equations, generations, population_size,
                  crossover_rate, mutation_rate, population, fitness_scores,
                  best_equation, new_population, generation, parent1, parent2,
                  child1, child2, pc, raised, result, records, evaluated,
                  call, sel >>

\* an executor that would let its caller go on while tasks still run
AllDone_without_barrier == TRUE

\* an evaluation that would take a task that raised for a finished one
AllDone_counting_failures ==
  \A i \in DOMAIN tasks : tasks[i].state \in { "done", "raised" }

\* leaving the with block of the executor waits for every task
AllDone == \A i \in DOMAIN tasks : tasks[i].state = "done"

\* the results as they would be if collected as the tasks complete
Results_in_completion_order ==
  [ k \in DOMAIN tasks |->
      tasks[CHOOSE i \in DOMAIN tasks : tasks[i].finished = k].fitness ]

\* list(executor.map(...)): the results in the order of the population
Results == [ i \in DOMAIN tasks |-> tasks[i].fitness ]

\* the end of initialize_population: the executor has shut down
FinishInitialFitness ==
  /\ pc = "initial_fitness"
  /\ AllDone
  /\ fitness_scores' = Results
  /\ tasks' = << >>
  /\ pc' = "loop"
  /\ UNCHANGED << registry, variables, equations, generations, population_size,
                  crossover_rate, mutation_rate, population, best_equation,
                  cached_fitness, new_population, generation, parent1, parent2,
                  child1, child2, raised, result, records, fitness_calls,
                  evaluated, call, sel >>

\* list(executor.map(...)) raises the exception of the first task, in the
\* order of the population, that raised one; leaving the with block waits for
\* the tasks that are running and the tasks not yet started are cancelled.
\* Nothing in evaluate_population_fitness, evolve or run catches it.
EvaluationRaised ==
  /\ pc \in { "initial_fitness", "fitness" }
  /\ \E i \in DOMAIN tasks :
       /\ tasks[i].state = "raised"
       /\ \A j \in 1 .. i - 1 : tasks[j].state = "done"
       /\ raised' = Equation_get_diffusiophoretic_velocity_raises(TheHeap, population[i])
  /\ \A j \in DOMAIN tasks : tasks[j].state # "computing"
  /\ pc' = "raised"
  /\ UNCHANGED << registry, variables, equations, generations, population_size,
                  crossover_rate, mutation_rate, population, fitness_scores,
                  best_equation, cached_fitness, new_population, generation,
                  parent1, parent2, child1, child2, tasks, result, records,
                  fitness_calls, evaluated, call, sel >>

\* ------------------------------------------------------------- selection
RECURSIVE SortedSeq(_)
\* a set of numbers as an ascending sequence
SortedSeq(S) ==
  IF S = {} THEN << >>
  ELSE LET m == CHOOSE x \in S : \A y \in S : x <= y
       IN << m >> \o SortedSeq(S \ {m})

\* random.sample(list, k): the sets of k positions it may return
Samples(positions, k) == { S \in SUBSET positions : Cardinality(S) = k }

RECURSIVE EvaluateAll(_, _, _)
\* evaluate_fitness called on each of ids in turn by one thread
EvaluateAll(H, d, ids) ==
  IF ids = << >> THEN [ d |-> d, values |-> << >>, computed |-> 0 ]
  ELSE LET before == EvaluateAll(H, d, SubSeq(ids, 1, Len(ids) - 1))
           one == GeneticAlgorithm_evaluate_fitness(H, before.d, ids[Len(ids)])
       IN [ d |-> one.d, values |-> Append(before.values, one.value),
            computed |-> before.computed + one.computed ]

\* One tournament of the engine among the positions given: the outcomes of
\* random.sample and max(..., key=evaluate_fitness).  max returns the first
\* of the best in the sample's random order, so any of the best may win; the
\* contestants are taken to be evaluated in the order of their positions.
TournamentRound(H, d, pop, positions) ==
  IF Cardinality(positions) < TournamentSize
  THEN { [ raised |-> "ValueError", winner |-> None, d |-> d, computed |-> 0, seen |-> {} ] }
  ELSE UNION {
         LET contestants == SortedSeq(S)
             ev == EvaluateAll(H, d, [ k \in DOMAIN contestants |-> pop[contestants[k]] ])
         IN { [ raised |-> "none", winner |-> contestants[k], d |-> ev.d,
                computed |-> ev.computed,
                seen |-> { Content(H, pop[i]) : i \in S } ]
              : k \in { k \in DOMAIN contestants :
                          \A l \in DOMAIN contestants : ev.values[k] >= ev.values[l] } }
         : S \in Samples(positions, TournamentSize) }

\* the second tournament as it would be if it sampled the whole population
Without_keeps_parent1(H, pop, first) == DOMAIN pop

\* population_without_parent1: the positions the second tournament samples from
Without(H, pop, first) ==
  { i \in DOMAIN pop : ~ Equation_eq(H, pop[i], pop[first]) }

\* tournament_selection of the engine: the set of its outcomes
GeneticAlgorithm_tournament_selection(H, d, pop) ==
  UNION {
    IF r1.raised # "none"
    THEN { [ raised |-> r1.raised, parent1 |-> None, parent2 |-> None, d |-> r1.d,
             computed |-> r1.computed, seen |-> r1.seen ] }
    ELSE { [ raised |-> r2.raised,
             parent1 |-> IF r2.raised = "none" THEN pop[r1.winner] ELSE None,
             parent2 |-> IF r2.raised = "none" THEN pop[r2.winner] ELSE None,
             d |-> r2.d, computed |-> r1.computed + r2.computed,
             seen |-> r1.seen \cup r2.seen ]
           : r2 \in TournamentRound(H, r1.d, pop, Without(H, pop, r1.winner)) }
    : r1 \in TournamentRound(H, d, pop, DOMAIN pop) }

CumulativeSums(scores) == [ i \in DOMAIN scores |-> SumSeq(SubSeq(scores, 1, i)) ]

\* random.random() is in [0, 1); a draw k stands for the value k / (2 * total)
RouletteDraws(scores) == 0 .. 2 * SumSeq(scores) - 1

\* roulette_select_parent: the first position whose cumulative probability is
\* at least the value drawn; None when there is none
Roulette_select_parent(scores, k) ==
  LET cum == CumulativeSums(scores)
      hit == { i \in DOMAIN scores : k <= 2 * cum[i] }
  IN IF hit = {} THEN None ELSE CHOOSE i \in hit : \A j \in hit : i <= j

RouletteChoices(scores) == { Roulette_select_parent(scores, k) : k \in RouletteDraws(scores) }

Selecting ==
  /\ pc = "loop"
  /\ generation < generations
  /\ Len(new_population) < population_size

\* select_parents, method "tournament"
SelectTournament ==
  /\ Selecting
  /\ \E o \in GeneticAlgorithm_tournament_selection(TheHeap, cached_fitness, population) :
       /\ Commit(TheHeap, population, new_population, o.parent1, o.parent2,
                 None, None, best_equation, o.d)
       /\ fitness_calls' = fitness_calls + o.computed
       /\ evaluated' = evaluated \cup o.seen
       /\ raised' = o.raised
       /\ pc' = IF o.raised = "none" THEN "crossover" ELSE "raised"
  /\ UNCHANGED << registry, generations, population_size, crossover_rate, mutation_rate,
                  fitness_scores, generation, tasks, result, records, call, sel >>

\* select_parents, method "roulette"
SelectRoulette ==
  /\ Selecting
  /\ IF SumSeq(fitness_scores) = 0
     THEN /\ raised' = "ZeroDivisionError"
          /\ pc' = "raised"
          /\ UNCHANGED << parent1, parent2 >>
     ELSE /\ \E i1 \in RouletteChoices(fitness_scores), i2 \in RouletteChoices(fitness_scores) :
               /\ parent1' = population[i1]
               /\ parent2' = population[i2]
          /\ raised' = raised
          /\ pc' = "crossover"
  /\ UNCHANGED << registry, variables, equations, generations, population_size,
                  crossover_rate, mutation_rate, population, fitness_scores,
                  best_equation, cached_fitness, new_population, generation,
                  child1, child2, tasks, result, records, fitness_calls,
                  evaluated, call, sel >>

\* ------------------------------------------------------------- crossover
\* np.random.rand() is in [0, 1): it can exceed a rate below 1, and be at
\* most a rate that is not negative
CanSkip(rate) == rate < RateOne
CanApply(rate) == rate >= 0

RECURSIVE UniformFill(_, _, _, _, _, _, _)
UniformFill(H, c1, c2, parent1_vars, parent2_vars, coins, i) ==
  IF i > Len(parent1_vars) THEN H
  ELSE LET to1 == IF coins[i] THEN parent1_vars[i] ELSE parent2_vars[i]
           to2 == IF coins[i] THEN parent2_vars[i] ELSE parent1_vars[i]
       IN UniformFill(Equation_add_variable(Equation_add_variable(H, c1, to1), c2, to2),
                      c1, c2, parent1_vars, parent2_vars, coins, i + 1)

\* uniform_crossover; coins[i] is np.random.rand() < 0.5 at position i.  Every
\* Equation of the engine holds the registry's names, so the two lists have
\* one length.
GeneticAlgorithm_uniform_crossover(H, p1, p2, coins) ==
  LET parent1_vars == Equation_get_variable_list(H, p1, FALSE)
      parent2_vars == Equation_get_variable_list(H, p2, FALSE)
      new1 == Equation_new(H)
      new2 == Equation_new(new1.H)
  IN [ H |-> UniformFill(new2.H, new1.id, new2.id, parent1_vars, parent2_vars, coins, 1),
       child1 |-> new1.id, child2 |-> new2.id ]

\* single_point_crossover; k1, k2 are what random.choice picked
GeneticAlgorithm_single_point_crossover(H, p1, p2, k1, k2) ==
  LET variable_1 == Equation_get_variable_list(H, p1, TRUE)[k1]
      variable_2 == Equation_get_variable_list(H, p2, TRUE)[k2]
      H1 == Equation_add_variable(H, p1, variable_2)
  IN [ H |-> Equation_add_variable(H1, p2, variable_1), child1 |-> p1, child2 |-> p2 ]

CrossoverFrame ==
  /\ pc' = "mutate1"
  /\ UNCHANGED << registry, generations, population_size, crossover_rate, mutation_rate,
                  fitness_scores, generation, tasks, raised, result, records,
                  fitness_calls, evaluated, call, sel >>

CrossoverSkipped ==
  /\ pc = "crossover"
  /\ CanSkip(crossover_rate)
  /\ Commit(TheHeap, population, new_population, parent1, parent2, parent1, parent2,
            best_equation, cached_fitness)
  /\ CrossoverFrame

CrossoverUniform ==
  /\ pc = "crossover"
  /\ CanApply(crossover_rate)
  /\ \E coins \in [ DOMAIN equations[parent1] -> BOOLEAN ] :
       LET c == GeneticAlgorithm_uniform_crossover(TheHeap, parent1, parent2, coins)
       IN Commit(c.H, population, new_population, parent1, parent2, c.child1, c.child2,
                 best_equation, cached_fitness)
  /\ CrossoverFrame

CrossoverSinglePoint ==
  /\ pc = "crossover"
  /\ CanApply(crossover_rate)
  /\ \E k1 \in DOMAIN Equation_get_variable_list(TheHeap, parent1, TRUE),
        k2 \in DOMAIN Equation_get_variable_list(TheHeap, parent2, TRUE) :
       LET c == GeneticAlgorithm_single_point_crossover(TheHeap, parent1, parent2, k1, k2)
       IN Commit(c.H, population, new_population, parent1, parent2, c.child1, c.child2,
                 best_equation, cached_fitness)
  /\ CrossoverFrame

\* --------------------------------------------------------------- mutation
\* a step that would be applied without np.clip
Clip_left_out(x, lo, hi) == x

\* np.clip(x, lo, hi)
Clip(x, lo, hi) == Min(Max(x, lo), hi)

\* step_mutation of the engine; k is what random.choice picked among the
\* non-constant Variables, step what random.uniform(-0.001, 0.001) returned
GeneticAlgorithm_step_mutation(H, child, k, step) ==
  LET variable_list == Equation_get_variable_list(H, child, FALSE)
      filtered_variables == SelectSeq(variable_list, LAMBDA vid : ~ H.v[vid].is_constant)
      chosen_variable == filtered_variables[k]
      current_value == H.v[chosen_variable].value
      new_value == Clip(current_value + step, H.v[chosen_variable].min_range,
                        H.v[chosen_variable].max_range)
      H1 == [ H EXCEPT !.v[chosen_variable] =
                Variable_set_value(H.v[chosen_variable], new_value, FALSE).var ]
  IN Equation_add_variable(H1, child, chosen_variable)

\* randomize_mutation
GeneticAlgorithm_randomize_mutation(H, child, d) == Equation_randomize_equation(H, child, d)

Mutating == pc \in { "mutate1", "mutate2" }

Mutated == IF pc = "mutate1" THEN child1 ELSE child2

\* the child is the one given: both mutations work in place.  After the
\* second child, new_population.extend([child1, child2]).
MutateDone(H) ==
  /\ IF pc = "mutate1"
     THEN /\ Commit(H, population, new_population, parent1, parent2, child1, child2,
                    best_equation, cached_fitness)
          /\ pc' = "mutate2"
     ELSE /\ Commit(H, population, new_population \o << child1, child2 >>,
                    None, None, None, None, best_equation, cached_fitness)
          /\ pc' = "loop"
  /\ UNCHANGED << registry, generations, population_size, crossover_rate, mutation_rate,
                  fitness_scores, generation, tasks, raised, result, records,
                  fitness_calls, evaluated, call, sel >>

MutateSkipped ==
  /\ Mutating
  /\ CanSkip(mutation_rate)
  /\ MutateDone(TheHeap)

MutateRandomize ==
  /\ Mutating
  /\ CanApply(mutation_rate)
  /\ \E d \in RandomizeDraws(TheHeap, Mutated) :
       MutateDone(GeneticAlgorithm_randomize_mutation(TheHeap, Mutated, d))

MutateStep ==
  /\ Mutating
  /\ CanApply(mutation_rate)
  /\ \E k \in DOMAIN Equation_get_variable_list(TheHeap, Mutated, TRUE),
        step \in (0 - StepSize) .. StepSize :
       MutateDone(GeneticAlgorithm_step_mutation(TheHeap, Mutated, k, step))

\* ------------------------------------------------------ the generation loop
\* self.population = new_population; evaluate_population_fitness submits
ReplacePopulation ==
  /\ pc = "loop"
  /\ generation < generations
  /\ Len(new_population) >= population_size
  /\ Commit(TheHeap, new_population, << >>, None, None, None, None, best_equation,
            cached_fitness)
  /\ tasks' = Submitted(new_population)
  /\ pc' = "fitness"
  /\ UNCHANGED << registry, generations, population_size, crossover_rate, mutation_rate,
                  fitness_scores, generation, raised, result, records,
                  fitness_calls, evaluated, call, sel >>

RECURSIVE SortedPositions(_, _)
\* sorted(..., key=fitness, reverse=True) is stable: equal scores keep their order
SortedPositions(scores, left) ==
  IF left = {} THEN << >>
  ELSE LET m == CHOOSE i \in left : \A j \in left :
                  \/ scores[i] > scores[j]
                  \/ (scores[i] = scores[j] /\ i <= j)
       IN << m >> \o SortedPositions(scores, left \ {m})

GeneticAlgorithm_sort_population_by_fitness(pop, scores) ==
  LET order == SortedPositions(scores, DOMAIN pop)
  IN [ i \in DOMAIN order |-> pop[order[i]] ]

\* broadcast_data as it would be if it sent the loop index itself
GeneticAlgorithm_broadcast_data_zero_based(g, best_fitness, rate, fitness_results) ==
  [ generation |-> g, best_fitness |-> best_fitness, mutation_rate |-> rate,
    unique_fitness_scores |-> Cardinality(Range(fitness_results)) ]

\* the data broadcast_data sends for loop index g
GeneticAlgorithm_broadcast_data(g, best_fitness, rate, fitness_results) ==
  [ generation |-> g + 1, best_fitness |-> best_fitness, mutation_rate |-> rate,
    unique_fitness_scores |-> Cardinality(Range(fitness_results)) ]

\* DataBroadcaster.broadcast: update(data) of the subscriber, called in turn
DataBroadcaster_broadcast(received, data) == Append(received, data)

\* the rest of a generation, once the executor has shut down: the scores,
\* the sort, best_equation and the broadcast up to the call of the
\* subscriber's update(data), which runs in the thread of run()
FinishGeneration ==
  /\ pc = "fitness"
  /\ AllDone
  /\ LET fitness_results == Results
         sorted_population == GeneticAlgorithm_sort_population_by_fitness(population, fitness_results)
         best == sorted_population[1]
         ev == GeneticAlgorithm_evaluate_fitness(TheHeap, cached_fitness, best)
     IN /\ fitness_scores' = fitness_results
        /\ Commit(TheHeap, population, << >>, None, None, None, None, best, ev.d)
        /\ fitness_calls' = fitness_calls + ev.computed
        /\ evaluated' = evaluated \cup { Content(TheHeap, best) }
        /\ records' = DataBroadcaster_broadcast(records,
                        GeneticAlgorithm_broadcast_data(generation, ev.value, mutation_rate,
                                                        fitness_results))
  /\ generation' = generation + 1
  /\ tasks' = << >>
  /\ pc' = "broadcast"
  /\ UNCHANGED << registry, generations, population_size, crossover_rate, mutation_rate,
                  raised, result, call, sel >>

\* subscriber.update(data) returns, and with it broadcast and broadcast_data:
\* the thread of run() goes on to the next pass of the loop
UpdateReturns ==
  /\ pc = "broadcast"
  /\ pc' = "loop"
  /\ UNCHANGED << registry, variables, equations, generations, population_size,
                  crossover_rate, mutation_rate, population, fitness_scores,
                  best_equation, cached_fitness, new_population, generation,
                  parent1, parent2, child1, child2, tasks, raised, result,
                  records, fitness_calls, evaluated, call, sel >>

\* the loop of evolve is exhausted: run returns self.best_equation
LoopExit ==
  /\ pc = "loop"
  /\ generation = generations
  /\ result' = best_equation
  /\ pc' = "returned"
  /\ UNCHANGED << registry, variables, equations, generations, population_size,
                  crossover_rate, mutation_rate, population, fitness_scores,
                  best_equation, cached_fitness, new_population, generation,
                  parent1, parent2, child1, child2, tasks, raised, records,
                  fitness_calls, evaluated, call, sel >>

Next ==
  \/ InitializePopulation
  \/ \E i \in DOMAIN tasks : TaskLookup(i)
  \/ \E i \in DOMAIN tasks : TaskCompute(i)
  \/ FinishInitialFitness
  \/ SelectTournament
  \/ SelectRoulette
  \/ CrossoverSkipped
  \/ CrossoverUniform
  \/ CrossoverSinglePoint
  \/ MutateSkipped
  \/ MutateRandomize
  \/ MutateStep
  \/ ReplacePopulation
  \/ FinishGeneration
  \/ UpdateReturns
  \/ LoopExit

Spec == EngineInit /\ [][Next]_vars

DomainNext ==
  \/ Next
  \/ EvaluationRaised

SpecDomain == DomainInit /\ [][DomainNext]_vars

\* ===================================================== Variable and Equation
\* A second specification: one Equation, as Equation() makes it, and calls of
\* set_value and randomize on its Variables, directly and through the
\* Equation.  call records the last call: what it was given, the Variable as
\* it was before, and the exception it raised.
SettableValues == 0 .. MaxValue + 1

UnitInit ==
  /\ registry = Registry
  /\ LET made == Equation_new(Heap(<< >>, << >>))
     IN /\ variables = made.H.v
        /\ equations = made.H.e
  /\ generations = 0
  /\ population_size = 0
  /\ crossover_rate = CrossoverRate
  /\ mutation_rate = MutationRate
  /\ population = << >>
  /\ fitness_scores = << >>
  /\ best_equation = None
  /\ cached_fitness = << >>
  /\ new_population = << >>
  /\ generation = 0
  /\ parent1 = None /\ parent2 = None /\ child1 = None /\ child2 = None
  /\ pc = "unit"
  /\ tasks = << >>
  /\ raised = "none"
  /\ result = None
  /\ records = << >>
  /\ fitness_calls = 0
  /\ evaluated = {}
  /\ call = Idle
  /\ sel = Idle

UnitFrame ==
  UNCHANGED << registry, equations, generations, population_size, crossover_rate,
               mutation_rate, population, fitness_scores, best_equation,
               cached_fitness, new_population, generation, parent1, parent2,
               child1, child2, pc, tasks, raised, result, records,
               fitness_calls, evaluated, sel >>

\* variable.set_value(value, safe_mode)
VariableSetValue ==
  /\ pc = "unit"
  /\ \E vid \in DOMAIN variables, value \in SettableValues, safe_mode \in BOOLEAN :
       LET r == Variable_set_value(variables[vid], value, safe_mode)
       IN /\ variables' = [ variables EXCEPT ![vid] = r.var ]
          /\ call' = [ op |-> "Variable.set_value", target |-> vid, value |-> value,
                       safe_mode |-> safe_mode, before |-> variables[vid],
                       raised |-> r.raised ]
  /\ UnitFrame

\* variable.randomize()
VariableRandomize ==
  /\ pc = "unit"
  /\ \E vid \in DOMAIN variables :
       \E drawn \in UniformDraws(variables[vid]) :
         /\ variables' = [ variables EXCEPT ![vid] = Variable_randomize(variables[vid], drawn) ]
         /\ call' = [ op |-> "Variable.randomize", target |-> vid, value |-> drawn,
                      safe_mode |-> FALSE, before |-> variables[vid],
                      raised |-> "none" ]
  /\ UnitFrame

\* equation.set_value(name, value, safe_mode)
EquationSetValue ==
  /\ pc = "unit"
  /\ \E name \in { variables[vid].name : vid \in DOMAIN variables } \cup { "unknown" },
        value \in SettableValues, safe_mode \in BOOLEAN :
       LET r == Equation_set_value(TheHeap, 1, name, value, safe_mode)
           vid == IF Equation_has_variable(TheHeap, 1, name)
                  THEN Equation_get_variable(TheHeap, 1, name) ELSE None
       IN /\ variables' = r.H.v
          /\ call' = [ op |-> "Equation.set_value", target |-> vid, value |-> value,
                       safe_mode |-> safe_mode,
                       before |-> IF vid = None THEN None ELSE variables[vid],
                       raised |-> r.raised ]
  /\ UnitFrame

\* Variable.from_dict(variable.to_dict()), as DataEngine writes and reads
VariableFromDict ==
  /\ pc = "unit"
  /\ \E vid \in DOMAIN variables :
       LET r == Variable_from_dict(Variable_to_dict(variables[vid]))
       IN call' = [ op |-> "Variable.from_dict", target |-> vid, value |-> 0,
                    safe_mode |-> FALSE, before |-> variables[vid],
                    raised |-> r.raised, made |-> r.var ]
  /\ UNCHANGED variables
  /\ UnitFrame

UnitNext ==
  \/ VariableSetValue
  \/ VariableRandomize
  \/ EquationSetValue
  \/ VariableFromDict

SpecVariable == UnitInit /\ [][UnitNext]_vars

\* ===================================================== tournament selection
\* A third specification: a population of 2 .. MaxTournamentPopulation random
\* Equations whose fitness has been evaluated, and one tournament selection
\* on it, by the engine (GeneticAlgorithm.tournament_selection) or by the
\* strategy class (TournamentSelection.select_parents), whose loop takes a
\* step at a time.  sel.at is the position in the selection.
SelectionInit ==
  /\ registry = Registry
  /\ \E n \in 2 .. MaxTournamentPopulation :
       LET blank == Equation_init(Registry, Heap(<< >>, << >>))
       IN \E draws \in [ 1 .. n -> RandomizeDraws(blank.H, blank.id) ] :
            LET made == RandomEquations(Registry, Heap(<< >>, << >>), n, draws)
                ev == EvaluateAll(made.H, << >>, made.ids)
            IN /\ variables = made.H.v
               /\ equations = made.H.e
               /\ population = made.ids
               /\ population_size = n
               /\ fitness_scores = ev.values
               /\ cached_fitness = ev.d
  /\ generations = 1
  /\ crossover_rate = CrossoverRate
  /\ mutation_rate = MutationRate
  /\ best_equation = None
  /\ new_population = << >>
  /\ generation = 0
  /\ parent1 = None /\ parent2 = None /\ child1 = None /\ child2 = None
  /\ pc = "selection"
  /\ tasks = << >>
  /\ raised = "none"
  /\ result = None
  /\ records = << >>
  /\ fitness_calls = 0
  /\ evaluated = {}
  /\ call = Idle
  /\ sel = [ op |-> "none", at |-> "start" ]

SelectionFrame ==
  UNCHANGED << registry, generations, population_size, crossover_rate, mutation_rate,
               fitness_scores, generation, tasks, result, records, call, pc >>

\* copy.deepcopy(equation): a new Equation holding copies of its Variables
Equation_deepcopy(H, e) ==
  LET n == Len(H.v)
      held == H.e[e]
  IN [ H |-> Heap(H.v \o [ j \in DOMAIN held |-> H.v[held[j]] ],
                  Append(H.e, [ j \in DOMAIN held |-> n + j ])),
       id |-> Len(H.e) + 1 ]

\* tournament_select_parent of the strategy class: the positions it may
\* return, the best by fitness_scores of a sample of positions
TournamentSelection_tournament_select_parent(pop, scores, tournament_size) ==
  UNION { { i \in S : \A j \in S : scores[i] >= scores[j] }
          : S \in Samples(DOMAIN pop, tournament_size) }

\* GeneticAlgorithm.tournament_selection(tournament_size=6), at once
EngineTournament ==
  /\ pc = "selection"
  /\ sel.at = "start"
  /\ \E o \in GeneticAlgorithm_tournament_selection(TheHeap, cached_fitness, population) :
       /\ Commit(TheHeap, population, new_population, o.parent1, o.parent2,
                 None, None, best_equation, o.d)
       /\ fitness_calls' = fitness_calls + o.computed
       /\ evaluated' = evaluated \cup o.seen
       /\ raised' = o.raised
       /\ sel' = [ op |-> "engine", at |-> IF o.raised = "none" THEN "returned" ELSE "raised" ]
  /\ SelectionFrame

StrategyFrame ==
  /\ SelectionFrame
  /\ UNCHANGED << variables, equations, population, new_population, child1,
                  child2, best_equation, cached_fitness, fitness_calls, evaluated >>

\* parent1 = tournament_select_parent(); random.sample raises ValueError when
\* the population is smaller than the tournament
StrategyFirstParent ==
  /\ pc = "selection"
  /\ sel.at = "start"
  /\ IF Len(population) < TournamentSize
     THEN /\ raised' = "ValueError"
          /\ sel' = [ op |-> "strategy", at |-> "raised" ]
          /\ UNCHANGED parent1
     ELSE /\ \E i \in TournamentSelection_tournament_select_parent(population, fitness_scores, TournamentSize) :
               parent1' = population[i]
          /\ raised' = raised
          /\ sel' = [ op |-> "strategy", at |-> "second" ]
  /\ UNCHANGED parent2
  /\ StrategyFrame

\* parent2 = tournament_select_parent()
StrategySecondParent ==
  /\ pc = "selection"
  /\ sel.at = "second"
  /\ \E i \in TournamentSelection_tournament_select_parent(population, fitness_scores, TournamentSize) :
       parent2' = population[i]
  /\ sel' = [ sel EXCEPT !.at = "while" ]
  /\ UNCHANGED << parent1, raised >>
  /\ StrategyFrame

\* while parent1 == parent2: parent2 = tournament_select_parent()
StrategyResample ==
  /\ pc = "selection"
  /\ sel.at = "while"
  /\ Equation_eq(TheHeap, parent1, parent2)
  /\ \E i \in TournamentSelection_tournament_select_parent(population, fitness_scores, TournamentSize) :
       parent2' = population[i]
  /\ UNCHANGED << parent1, raised, sel >>
  /\ StrategyFrame

\* the loop is left; select_parents returns deep copies of the two
StrategyReturn ==
  /\ pc = "selection"
  /\ sel.at = "while"
  /\ ~ Equation_eq(TheHeap, parent1, parent2)
  /\ LET copy1 == Equation_deepcopy(TheHeap, parent1)
         copy2 == Equation_deepcopy(copy1.H, parent2)
     IN Commit(copy2.H, population, new_population, copy1.id, copy2.id,
               None, None, best_equation, cached_fitness)
  /\ sel' = [ sel EXCEPT !.at = "returned" ]
  /\ UNCHANGED << raised, fitness_calls, evaluated >>
  /\ SelectionFrame

SelectionNext ==
  \/ EngineTournament
  \/ StrategyFirstParent
  \/ StrategySecondParent
  \/ StrategyResample
  \/ StrategyReturn

SpecSelection == SelectionInit /\ [][SelectionNext]_vars

\* a turn of the loop whose tournament returns the member at position i
ResampleTo(i) ==
  /\ StrategyResample
  /\ i \in DOMAIN population
  /\ parent2' = population[i]

\* the condition of the while loop is false
LoopLeft ==
  /\ pc = "selection"
  /\ sel.at = "while"
  /\ ~ Equation_eq(TheHeap, parent1, parent2)

\* the step StrategyReturn takes, told by what it does to sel
Returns ==
  /\ LoopLeft
  /\ sel' = [ sel EXCEPT !.at = "returned" ]

\* The thread that called select_parents goes on running, and random.sample
\* is fair: a member that tournaments can return again and again is returned
\* by one of them.
SelectionFairness ==
  /\ WF_vars(StrategySecondParent)
  /\ WF_sel(Returns)
  /\ \A i \in 1 .. MaxTournamentPopulation : SF_vars(ResampleTo(i))

SpecSelectionFair == SelectionInit /\ [][SelectionNext]_vars /\ SelectionFairness

\* ---------------------------------------- roulette selection in floats
\* The cumulative probabilities as Python computes them: each quotient and
\* each sum is rounded to the nearest float, ties to even.
RECURSIVE Pow2(_)
Pow2(n) == IF n = 0 THEN 1 ELSE 2 * Pow2(n - 1)

\* the float nearest to a / b, for whole numbers a >= 0 and b > 0, a / b < 2
Float_round(a, b) ==
  IF a = 0 THEN 0
  ELSE LET scaled == a * Pow2(FloatScale)
           k == CHOOSE k \in 0 .. FloatScale :
                  /\ Pow2(k + FloatBits - 1) * b <= scaled
                  /\ scaled < Pow2(k + FloatBits) * b
           ulp == b * Pow2(k)
           q == scaled \div ulp
           twice == 2 * (scaled % ulp)
       IN IF twice > ulp \/ (twice = ulp /\ q % 2 = 1)
          THEN (q + 1) * Pow2(k) ELSE q * Pow2(k)

\* fitness / total_fitness
Float_divide(fitness, total_fitness) == Float_round(fitness, total_fitness)

\* x + y of two floats
Float_add(x, y) == Float_round(x + y, Pow2(FloatScale))

RECURSIVE CummulativeProbabilities(_, _)
\* cummulative_probabilities after the loop over the first n fitness scores
CummulativeProbabilities(scores, n) ==
  IF n = 0 THEN << >>
  ELSE LET before == CummulativeProbabilities(scores, n - 1)
           cummulative_sum == IF n = 1 THEN 0 ELSE before[n - 1]
           normalized_probability == Float_divide(scores[n], SumSeq(scores))
       IN Append(before, Float_add(cummulative_sum, normalized_probability))

\* random.random(): the floats k / 2^FloatBits of [0, 1)
RandomValues == { k * Pow2(FloatScale - FloatBits) : k \in 0 .. Pow2(FloatBits) - 1 }

\* roulette_select_parent: the position of the first cumulative probability
\* that is at least random_value; falling out of the loop returns None
RouletteSelection_roulette_select_parent(scores, random_value) ==
  LET cummulative_probabilities == CummulativeProbabilities(scores, Len(scores))
      hit == { i \in DOMAIN scores : random_value <= cummulative_probabilities[i] }
  IN IF hit = {} THEN None ELSE CHOOSE i \in hit : \A j \in hit : i <= j

RouletteFrame ==
  /\ SelectionFrame
  /\ UNCHANGED << variables, equations, population, new_population, child1,
                  child2, best_equation, cached_fitness, fitness_calls,
                  evaluated, raised >>

\* what a call of roulette_select_parent drew and the position it returned
Drawn(at, random_value) ==
  [ op |-> "roulette", at |-> at, random_value |-> random_value,
    chosen |-> RouletteSelection_roulette_select_parent(fitness_scores, random_value) ]

\* parent1 = roulette_select_parent()
RouletteFirstParent ==
  /\ pc = "selection"
  /\ sel.at = "start"
  /\ \E random_value \in RandomValues :
       /\ sel' = Drawn("first", random_value)
       /\ parent1' = IF sel'.chosen = None THEN None ELSE population[sel'.chosen]
  /\ UNCHANGED parent2
  /\ RouletteFrame

\* parent2 = roulette_select_parent(), and roulette_selection returns
RouletteSecondParent ==
  /\ pc = "selection"
  /\ sel.at = "first"
  /\ \E random_value \in RandomValues :
       /\ sel' = Drawn("second", random_value)
       /\ parent2' = IF sel'.chosen = None THEN None ELSE population[sel'.chosen]
  /\ UNCHANGED parent1
  /\ RouletteFrame

RouletteNext ==
  \/ RouletteFirstParent
  \/ RouletteSecondParent

SpecRoulette == SelectionInit /\ [][RouletteNext]_vars

\* ================================================================ properties
\* ------------------------------------------- Equations built by a caller
\* Two Equations made by Equation() that a caller fills through add_variable
\* and then hands to a crossover.  population holds the two.
AddableNames == { "chemiphoretic_gradient", "diffusiophoretic_mobility" }

\* the Variables a caller adds
AddableVariables ==
  { Variable(n, v, c, 1, MaxValue) : n \in AddableNames, v \in 1 .. MaxValue, c \in BOOLEAN }
    \cup { Variable("chemiphoretic_gradient", 1, FALSE, 0, MaxValue) }

\* the names of an Equation's Variables in the order of its dict
Names(H, e) == [ j \in DOMAIN H.e[e] |-> H.v[H.e[e][j]].name ]

EquationInit ==
  /\ registry = Registry
  /\ LET first == Equation_new(Heap(<< >>, << >>))
         second == Equation_new(first.H)
     IN /\ variables = second.H.v
        /\ equations = second.H.e
        /\ population = << first.id, second.id >>
  /\ generations = 0
  /\ population_size = 0
  /\ crossover_rate = CrossoverRate
  /\ mutation_rate = MutationRate
  /\ fitness_scores = << >>
  /\ best_equation = None
  /\ cached_fitness = << >>
  /\ new_population = << >>
  /\ generation = 0
  /\ parent1 = None /\ parent2 = None /\ child1 = None /\ child2 = None
  /\ pc = "equation"
  /\ tasks = << >>
  /\ raised = "none"
  /\ result = None
  /\ records = << >>
  /\ fitness_calls = 0
  /\ evaluated = {}
  /\ call = Idle
  /\ sel = Idle

EquationFrame ==
  UNCHANGED << registry, generations, population_size, crossover_rate, mutation_rate,
               fitness_scores, generation, tasks, raised, result, records,
               fitness_calls, evaluated, sel >>

\* equation.add_variable(Variable(...)) of a name the Equation does not hold
EquationAddVariable ==
  /\ pc = "equation"
  /\ \E i \in DOMAIN population, var \in AddableVariables :
       /\ ~ Equation_has_variable(TheHeap, population[i], var.name)
       /\ LET H == Heap(Append(variables, var), equations)
          IN Commit(Equation_add_variable(H, population[i], Len(variables) + 1),
                    population, << >>, None, None, None, None, None, << >>)
  /\ UNCHANGED << pc, call >>
  /\ EquationFrame

EquationNext == EquationAddVariable

SpecEquation == EquationInit /\ [][EquationNext]_vars

\* ------------------------------------------ crossover of a caller's parents
RECURSIVE Equation_set_variable_list(_, _, _)
\* set_variable_list: set_variable of each Variable of the list in turn
Equation_set_variable_list(H, e, variable_list) ==
  IF variable_list = << >> THEN H
  ELSE Equation_set_variable_list(Equation_add_variable(H, e, Head(variable_list)),
                                  e, Tail(variable_list))

\* Python's s[start:stop] with start >= 0: the bounds are clamped to the list
Slice(s, start, stop) ==
  LET last == Min(stop, Len(s))
  IN IF last <= start THEN << >> ELSE [ j \in 1 .. last - start |-> s[start + j] ]

\* SinglePointCrossover.crossover; point is what random.randint returned
SinglePointCrossover_crossover(H, p1, p2, point) ==
  LET parent1_genes == Equation_get_variable_list(H, p1, FALSE)
      parent2_genes == Equation_get_variable_list(H, p2, FALSE)
      new1 == Equation_new(H)
      new2 == Equation_new(new1.H)
      child1_genes == Slice(parent1_genes, 0, point)
                        \o Slice(parent2_genes, point, Len(parent2_genes))
      child2_genes == Slice(parent2_genes, 0, point)
                        \o Slice(parent1_genes, point, Len(parent1_genes))
  IN [ H |-> Equation_set_variable_list(
               Equation_set_variable_list(new2.H, new1.id, child1_genes),
               new2.id, child2_genes),
       child1 |-> new1.id, child2 |-> new2.id ]

\* what a crossover is called with, the parents' names and Variables as they
\* were at the call, and what it raised
Crossed(op, p1, p2, exception) ==
  [ op |-> op, parent1_names |-> Names(TheHeap, p1),
    parent2_names |-> Names(TheHeap, p2),
    parent1_content |-> Content(TheHeap, p1),
    parent2_content |-> Content(TheHeap, p2), raised |-> exception ]

\* a crossover that raised: the parents are as they were, no child is returned
BreedRaised(op, exception) ==
  /\ call' = Crossed(op, population[1], population[2], exception)
  /\ UNCHANGED << variables, equations, population, new_population, parent1,
                  parent2, child1, child2, best_equation, cached_fitness >>

BreedReturned(op, c) ==
  /\ call' = Crossed(op, population[1], population[2], "none")
  /\ Commit(c.H, population, << >>, None, None, c.child1, c.child2, None, << >>)

\* uniform_crossover(parent1, parent2), the same code in GeneticAlgorithm,
\* Crossover and UniformCrossover: parent2_vars[i] raises IndexError when
\* parent2 holds fewer Variables than parent1
BreedUniform ==
  /\ pc = "equation"
  /\ IF Len(equations[population[2]]) < Len(equations[population[1]])
     THEN BreedRaised("uniform_crossover", "IndexError")
     ELSE \E coins \in [ DOMAIN equations[population[1]] -> BOOLEAN ] :
            BreedReturned("uniform_crossover",
              GeneticAlgorithm_uniform_crossover(TheHeap, population[1], population[2], coins))
  /\ pc' = "bred"
  /\ EquationFrame

\* SinglePointCrossover().crossover(parent1, parent2): random.randint(1, 0)
\* raises ValueError for a parent of one gene
BreedSinglePoint ==
  /\ pc = "equation"
  /\ IF Len(equations[population[1]]) < 2
     THEN BreedRaised("SinglePointCrossover.crossover", "ValueError")
     ELSE \E point \in 1 .. Len(equations[population[1]]) - 1 :
            BreedReturned("SinglePointCrossover.crossover",
              SinglePointCrossover_crossover(TheHeap, population[1], population[2], point))
  /\ pc' = "bred"
  /\ EquationFrame

\* single_point_crossover(parent1, parent2) of GeneticAlgorithm and Crossover:
\* random.choice raises IndexError on a parent with no Variable to change
BreedSwapVariable ==
  /\ pc = "equation"
  /\ LET list1 == Equation_get_variable_list(TheHeap, population[1], TRUE)
         list2 == Equation_get_variable_list(TheHeap, population[2], TRUE)
     IN IF list1 = << >> \/ list2 = << >>
        THEN BreedRaised("single_point_crossover", "IndexError")
        ELSE \E k1 \in DOMAIN list1, k2 \in DOMAIN list2 :
               BreedReturned("single_point_crossover",
                 GeneticAlgorithm_single_point_crossover(TheHeap, population[1],
                                                         population[2], k1, k2))
  /\ pc' = "bred"
  /\ EquationFrame

CrossoverNext ==
  \/ EquationAddVariable
  \/ BreedUniform
  \/ BreedSinglePoint
  \/ BreedSwapVariable

SpecCrossover == EquationInit /\ [][CrossoverNext]_vars

\* ---------------------------------------------- the loop of evolve alone
\* The loop of evolve over many generations, with what a pass does reduced to
\* the best fitness it ends with.  sel holds what a stagnation check would
\* keep: the best fitness of the previous generation and the count of
\* generations without improvement.
LoopInit ==
  /\ registry = Registry
  /\ variables = << >>
  /\ equations = << >>
  /\ generations \in 0 .. MaxLoopGenerations
  /\ population_size = 1
  /\ crossover_rate = CrossoverRate
  /\ mutation_rate = MutationRate
  /\ population = << >>
  /\ fitness_scores = << >>
  /\ best_equation = None
  /\ cached_fitness = << >>
  /\ new_population = << >>
  /\ generation = 0
  /\ parent1 = None /\ parent2 = None /\ child1 = None /\ child2 = None
  /\ pc = "evolve"
  /\ tasks = << >>
  /\ raised = "none"
  /\ result = None
  /\ records = << >>
  /\ fitness_calls = 0
  /\ evaluated = {}
  /\ call = Idle
  /\ sel = [ op |-> "stagnation", previous_best |-> 0, counter |-> 0 ]

LoopFrame ==
  UNCHANGED << registry, variables, equations, generations, population_size,
               crossover_rate, mutation_rate, population, fitness_scores,
               cached_fitness, new_population, parent1, parent2, child1, child2,
               tasks, raised, records, fitness_calls, evaluated, call >>

\* the stagnation counter after a generation that ended with best_fitness
Stagnation(kept, best_fitness) ==
  [ op |-> "stagnation", previous_best |-> best_fitness,
    counter |-> IF best_fitness > kept.previous_best THEN 0 ELSE kept.counter + 1 ]

\* one pass of `for generation in range(self.generations)`: nothing in the
\* body leaves the loop
LoopPass ==
  /\ pc = "evolve"
  /\ generation < generations
  /\ \E best_fitness \in 1 .. MaxValue :
       sel' = Stagnation(sel, best_fitness)
  /\ generation' = generation + 1
  /\ UNCHANGED << pc, result, best_equation >>
  /\ LoopFrame

\* range(self.generations) is exhausted: evolve returns, run returns
LoopReturn ==
  /\ pc = "evolve"
  /\ generation = generations
  /\ result' = best_equation
  /\ pc' = "returned"
  /\ UNCHANGED << best_equation, generation, sel >>
  /\ LoopFrame

LoopNext ==
  \/ LoopPass
  \/ LoopReturn

SpecLoop == LoopInit /\ [][LoopNext]_vars

\* ------------------------------------------- the adaptive mutation rate
\* The mutation rate as the code adapts it, once a generation: by the
\* diversity of the fitness scores in evolve of src/genetic_algorithm.py, the
\* engine the unit tests construct, and by the improvement of the best fitness
\* in StrategyManager.  sel.op is the signal in use, sel.initial_rate the rate
\* configured, sel.identical whether every generation so far had one unique
\* fitness score.  A product of a rate is rounded down to a thousandth, which
\* keeps the order of two rates.

\* the mutation rate after the diversity check of evolve; within the bounds
\* population_size * 0.1 is exact in floating point
GeneticAlgorithm_evolve_mutation_rate(rate, fitness_results, size) ==
  LET unique_fitness_results == Cardinality(Range(fitness_results))
  IN IF 10 * unique_fitness_results < size
     THEN Min((rate * 11) \div 10, MaxMutationRate)
     ELSE Max((rate * 9) \div 10, MinMutationRate)

\* update_mutation_rate_by_fitness as it would be without its guard, a
\* previous best fitness of 0 taken for no improvement
StrategyManager_update_mutation_rate_by_fitness_unguarded(rate, best_fitness, previous_best_fitness) ==
  IF previous_best_fitness = 0
     \/ 100 * (best_fitness - previous_best_fitness)
          < 10 * (IF previous_best_fitness < 0 THEN 0 - previous_best_fitness
                  ELSE previous_best_fitness)
  THEN Min((rate * 12) \div 10, MaxMutationRate)
  ELSE Max((rate * 8) \div 10, MinMutationRate)

\* update_mutation_rate_by_fitness: the mutation rate afterwards.
\* fitness_improvement < 10 is (best - previous) / abs(previous) * 100 < 10
StrategyManager_update_mutation_rate_by_fitness(rate, best_fitness, previous_best_fitness) ==
  IF previous_best_fitness # 0
  THEN LET magnitude == IF previous_best_fitness < 0 THEN 0 - previous_best_fitness
                        ELSE previous_best_fitness
       IN IF 100 * (best_fitness - previous_best_fitness) < 10 * magnitude
          THEN Min((rate * 12) \div 10, MaxMutationRate)
          ELSE Max((rate * 8) \div 10, MinMutationRate)
  ELSE rate

\* the best fitness values a generation may end with
ManagedFitness == (0 - 1) .. MaxValue

\* fitness results of a population of the size given with u unique scores
ScoresWithUnique(size, u) == [ i \in 1 .. size |-> Min(i, u) ]

ManagerInit ==
  /\ registry = Registry
  /\ variables = << >>
  /\ equations = << >>
  /\ generations \in 1 .. MaxGenerations
  /\ population_size \in 1 .. MaxManagedPopulation
  /\ crossover_rate = CrossoverRate
  /\ mutation_rate \in { MinMutationRate, TestMutationRate, MaxMutationRate, RateOne }
  /\ population = << >>
  /\ fitness_scores = << >>
  /\ best_equation = None
  /\ cached_fitness = << >>
  /\ new_population = << >>
  /\ generation = 0
  /\ parent1 = None /\ parent2 = None /\ child1 = None /\ child2 = None
  /\ pc = "manager"
  /\ tasks = << >>
  /\ raised = "none"
  /\ result = None
  /\ records = << >>
  /\ fitness_calls = 0
  /\ evaluated = {}
  /\ call = Idle
  /\ \E op \in { "evolve", "update_mutation_rate_by_fitness" } :
       sel = [ op |-> op, initial_rate |-> mutation_rate, identical |-> TRUE ]

ManagerFrame ==
  UNCHANGED << registry, variables, equations, generations, population_size,
               crossover_rate, population, best_equation, cached_fitness,
               new_population, parent1, parent2, child1, child2, pc, tasks,
               raised, result, records, fitness_calls, evaluated >>

\* one pass of the loop of evolve with evaluate_population_fitness returning
\* fitness_results: the rate is adjusted by their diversity
EvolveAdjusts ==
  /\ pc = "manager"
  /\ sel.op = "evolve"
  /\ generation < generations
  /\ \E u \in 1 .. Min(population_size, MaxValue + 1) :
       LET fitness_results == ScoresWithUnique(population_size, u)
       IN /\ fitness_scores' = fitness_results
          /\ mutation_rate' = GeneticAlgorithm_evolve_mutation_rate(mutation_rate,
                                fitness_results, population_size)
          /\ sel' = [ sel EXCEPT !.identical = sel.identical /\ u = 1 ]
          /\ call' = [ op |-> "evolve", rate |-> mutation_rate, unique |-> u ]
  /\ generation' = generation + 1
  /\ ManagerFrame

\* update_mutation_rate_by_fitness(best_fitness, previous_best_fitness),
\* called at the end of a generation
UpdateMutationRateByFitness ==
  /\ pc = "manager"
  /\ sel.op = "update_mutation_rate_by_fitness"
  /\ generation < generations
  /\ \E best_fitness \in ManagedFitness, previous_best_fitness \in ManagedFitness :
       /\ mutation_rate' = StrategyManager_update_mutation_rate_by_fitness(mutation_rate,
                             best_fitness, previous_best_fitness)
       /\ call' = [ op |-> "update_mutation_rate_by_fitness", rate |-> mutation_rate,
                    best_fitness |-> best_fitness,
                    previous_best_fitness |-> previous_best_fitness ]
  /\ generation' = generation + 1
  /\ UNCHANGED << fitness_scores, sel >>
  /\ ManagerFrame

ManagerNext ==
  \/ EvolveAdjusts
  \/ UpdateMutationRateByFitness

SpecManager == ManagerInit /\ [][ManagerNext]_vars

\* ------------------------------------------------- step mutation alone
\* One Equation, as Equation() makes it from a registry with a Variable of a
\* wide range, one of a narrow range and a constant, randomized, and step
\* mutations of it: by the engine, whose step is drawn from [-0.001, 0.001],
\* and by the strategy class, whose step is drawn from a tenth of the range.
\* call records the Variables as they were before the last mutation.
MutationRegistry ==
  << Variable("channel_height", 0, FALSE, 0, MaxWideValue),
     Variable("diffusiophoretic_velocity", 1, FALSE, 1, MaxValue),
     Variable("elementary_charge", 1, TRUE, 1, MaxValue) >>

\* random.uniform(-step_size, step_size) with step_size a tenth of the range,
\* in whole units: a step is rounded toward zero
StepValues(var) ==
  LET step_size == (var.max_range - var.min_range) \div 10
  IN (0 - step_size) .. step_size

\* StepMutation.mutate and Mutation.step_mutation; k is what random.choice
\* picked among the non-constant Variables, step_value what random.uniform
\* returned
StepMutation_mutate(H, child, k, step_value) ==
  LET variable_list == Equation_get_variable_list(H, child, TRUE)
      chosen_variable == variable_list[k]
      chosen_variable_max == H.v[chosen_variable].max_range
      chosen_variable_min == H.v[chosen_variable].min_range
      new_value == Clip(H.v[chosen_variable].value + step_value,
                        chosen_variable_min, chosen_variable_max)
      H1 == [ H EXCEPT !.v[chosen_variable] =
                Variable_set_value(H.v[chosen_variable], new_value, FALSE).var ]
  IN Equation_add_variable(H1, child, chosen_variable)

MutationInit ==
  /\ registry = MutationRegistry
  /\ LET made == Equation_init(MutationRegistry, Heap(<< >>, << >>))
     IN \E d \in [ DrawNames(made.H, made.id) -> 0 .. MaxWideValue ] :
          /\ \A vid \in DOMAIN made.H.v :
               ~ made.H.v[vid].is_constant =>
                 d[made.H.v[vid].name] \in UniformDraws(made.H.v[vid])
          /\ variables = Equation_randomize_equation(made.H, made.id, d).v
          /\ equations = made.H.e
  /\ generations = 0
  /\ population_size = 0
  /\ crossover_rate = CrossoverRate
  /\ mutation_rate = MutationRate
  /\ population = << >>
  /\ fitness_scores = << >>
  /\ best_equation = None
  /\ cached_fitness = << >>
  /\ new_population = << >>
  /\ generation = 0
  /\ parent1 = None /\ parent2 = None /\ child1 = 1 /\ child2 = None
  /\ pc = "mutation"
  /\ tasks = << >>
  /\ raised = "none"
  /\ result = None
  /\ records = << >>
  /\ fitness_calls = 0
  /\ evaluated = {}
  /\ call = Idle
  /\ sel = Idle

MutationFrame ==
  UNCHANGED << registry, generations, population_size, crossover_rate,
               mutation_rate, population, fitness_scores, best_equation,
               cached_fitness, new_population, generation, parent1, parent2,
               child1, child2, pc, tasks, raised, result, records,
               fitness_calls, evaluated, sel >>

\* what a mutation was called on: the heap as it was
Mutation_called(op) == [ op |-> op, variables |-> variables, equations |-> equations ]

\* GeneticAlgorithm.step_mutation(child)
EngineStepMutation ==
  /\ pc = "mutation"
  /\ \E k \in DOMAIN Equation_get_variable_list(TheHeap, child1, TRUE),
        step \in (0 - StepSize) .. StepSize :
       LET H == GeneticAlgorithm_step_mutation(TheHeap, child1, k, step)
       IN /\ variables' = H.v
          /\ equations' = H.e
  /\ call' = Mutation_called("GeneticAlgorithm.step_mutation")
  /\ MutationFrame

\* StepMutation().mutate(child), and Mutation.step_mutation(child)
StrategyStepMutation ==
  /\ pc = "mutation"
  /\ \E k \in DOMAIN Equation_get_variable_list(TheHeap, child1, TRUE) :
       \E step_value \in StepValues(variables[Equation_get_variable_list(TheHeap, child1, TRUE)[k]]) :
         LET H == StepMutation_mutate(TheHeap, child1, k, step_value)
         IN /\ variables' = H.v
            /\ equations' = H.e
  /\ call' = Mutation_called("StepMutation.mutate")
  /\ MutationFrame

MutationNext ==
  \/ EngineStepMutation
  \/ StrategyStepMutation

SpecMutation == MutationInit /\ [][MutationNext]_vars

\* ------------------------------------------------------------------------ C1
\* C1: across one run, the parallel evaluation of the population included,
\* the fitness function has been computed at most as many times as there are
\* distinct Equation contents that evaluate_fitness was given.
C1_FitnessComputedOncePerContent == fitness_calls <= Cardinality(evaluated)

\* ------------------------------------------------------------------------ C2
\* C2: after initialize_population and after every generation of evolve the
\* population holds exactly population_size Equations, for every
\* population_size >= 1.
C2_PopulationSizeFixed ==
  pc \in { "loop", "returned" } => Len(population) = population_size

\* ------------------------------------------------------------------------ C3
\* C3: with a population of at least 2, run() does not end in an exception,
\* and what it returns is an Equation, never None.
C3_RunReturnsAnEquation ==
  (population_size >= 2 /\ generations >= 1) =>
    /\ pc # "raised"
    /\ (pc = "returned" => result # None)

\* ------------------------------------------------------------------------ C4
\* C4: the fitness of the Equation that run() returns is at least the best
\* fitness of every generation of the run, as the progress records report it.
C4_ReturnedIsBestOfAllGenerations ==
  (pc = "returned" /\ result # None) =>
    \A i \in DOMAIN records :
      Equation_get_diffusiophoretic_velocity(TheHeap, result) >= records[i].best_fitness

\* ------------------------------------------------------------------------ C5
\* C5: the progress records received so far carry the generation indices
\* 1, 2, ..., k in that order, k is the number of generations completed, one
\* record for each, and k is at most the configured number of generations.
C5_RecordIndices ==
  pc \notin { "unit", "selection" } =>
    /\ \A i \in DOMAIN records : records[i].generation = i
    /\ Len(records) = generation
    /\ Len(records) <= generations

\* a run of two generations has returned and both records have been received
C5_Witness ==
  /\ pc = "returned"
  /\ generations = 2
  /\ Len(records) = 2
  /\ records[2].generation = 2

\* ------------------------------------------------------------------------ C6
\* the content of each Equation of the population, by position
PopulationContents == [ i \in DOMAIN population |-> Content(TheHeap, population[i]) ]

\* C6: once select_parents has returned, no crossover and no mutation of the
\* parents or of their children changes the content of an Equation of the
\* population that was selected from.
C6_SelectionReturnsCopies ==
  [][ (pc \in { "crossover", "mutate1", "mutate2" })
        => (PopulationContents' = PopulationContents) ]_vars

\* ------------------------------------------------------------------------ C7
\* C7: between two breedings, no two different Equations among the population
\* and the new population being filled reference one Variable instance.
C7_NoSharedVariable ==
  pc = "loop" =>
    \A a, b \in Range(population \o new_population) :
      a # b => Range(equations[a]) \cap Range(equations[b]) = {}

\* ------------------------------------------------------------------------ C8
\* C8: the two parents a tournament selection returns, from a population of
\* at least 2, are not content-equal.
C8_TournamentParentsDiffer ==
  (pc = "selection" /\ sel.at = "returned") =>
    ~ Equation_eq(TheHeap, parent1, parent2)

\* a tournament has returned parents from a population in which several
\* Equations are content-equal to one of them
C8_Witness ==
  /\ pc = "selection"
  /\ Len(population) >= 2
  /\ sel.at = "returned"
  /\ \E i, j \in DOMAIN population :
       /\ i # j
       /\ Equation_eq(TheHeap, population[i], population[j])
       /\ Equation_eq(TheHeap, population[i], parent2)

\* ------------------------------------------------------------------------ C9
\* C9: whatever calls of set_value(v, safe_mode=False) and randomize() have
\* been made, a constant Variable has the value it was created with.
C9_ConstantKeepsValue ==
  pc = "unit" =>
    \A vid \in DOMAIN variables :
      variables[vid].is_constant => variables[vid].value = Registry[vid].value

\* set_value(v, safe_mode=False), v not its value, was the last call on a
\* constant Variable
C9_Witness ==
  /\ pc = "unit"
  /\ call.op = "Variable.set_value"
  /\ ~ call.safe_mode
  /\ call.before.is_constant
  /\ call.value # call.before.value
  /\ call.raised = "none"

\* ----------------------------------------------------------------------- C10
\* C10: set_value(v, safe_mode=True), called on the Variable or through its
\* Equation, raises the error of a constant (ValueError) and leaves a
\* constant Variable as it was, and stores v in a Variable that is not
\* constant without raising.
C10_SafeSetValue ==
  (pc = "unit" /\ call.op \in { "Variable.set_value", "Equation.set_value" }
               /\ call.safe_mode /\ call.target # None) =>
    IF call.before.is_constant
    THEN /\ call.raised = "ValueError"
         /\ variables[call.target] = call.before
    ELSE /\ call.raised = "none"
         /\ variables[call.target].value = call.value

\* Equation.set_value(name, v, safe_mode=True), v not its value, on the name of
\* a constant Variable has raised
C10_Witness ==
  /\ pc = "unit"
  /\ call.op = "Equation.set_value"
  /\ call.safe_mode
  /\ call.target # None
  /\ call.before.is_constant
  /\ call.value # call.before.value
  /\ call.raised = "ValueError"

\* ----------------------------------------------------------------------- C11
\* the assignments an Equation was built from: name -> (value, is_constant,
\* min_range, max_range)
Assignments(e) ==
  { << variables[vid].name, variables[vid].value, variables[vid].is_constant,
       variables[vid].min_range, variables[vid].max_range >> :
      vid \in Range(equations[e]) }

\* C11: two Equations built from the same name -> (value, is_constant,
\* min_range, max_range) assignments are equal and have equal hashes whatever
\* the order of insertion, and two Equations that differ in a Variable's
\* field are not equal.
C11_EqualityIgnoresOrder ==
  pc = "equation" =>
    /\ Assignments(1) = Assignments(2) =>
         /\ Equation_eq(TheHeap, 1, 2)
         /\ Equation_eq(TheHeap, 2, 1)
         /\ Equation_hash(TheHeap, 1) = Equation_hash(TheHeap, 2)
    /\ Assignments(1) # Assignments(2) =>
         /\ ~ Equation_eq(TheHeap, 1, 2)
         /\ ~ Equation_eq(TheHeap, 2, 1)

\* the same assignments, inserted in different orders
C11_Witness ==
  /\ pc = "equation"
  /\ Assignments(1) = Assignments(2)
  /\ Names(TheHeap, 1) # Names(TheHeap, 2)

\* ----------------------------------------------------------------------- C12
\* C12: Variable.from_dict(v.to_dict()) succeeds and gives a Variable equal to
\* v in name, value, is_constant, min_range and max_range.
C12_RoundTrip ==
  call.op = "Variable.from_dict" =>
    /\ call.raised = "none"
    /\ Variable_eq(call.made, call.before)

\* ----------------------------------------------------------------------- C13
\* C13: for parents with the same set of variable names, each child that a
\* Uniform or SinglePoint crossover returns has as many Variables as a parent
\* and the same set of names.
C13_CrossoverKeepsNames ==
  ( /\ pc = "bred"
    /\ call.raised = "none"
    /\ Range(call.parent1_names) = Range(call.parent2_names) ) =>
    \A child \in { child1, child2 } :
      /\ Len(equations[child]) = Len(call.parent1_names)
      /\ Range(Names(TheHeap, child)) = Range(call.parent1_names)

\* ----------------------------------------------------------------------- C14
EngineStates ==
  { "start", "initial_fitness", "loop", "crossover", "mutate1", "mutate2",
    "fitness", "broadcast", "returned", "raised" }

C15_RecordFields ==
  pc \in EngineStates =>
    \A i \in DOMAIN records :
      /\ records[i].generation >= 1
      /\ MinMutationRate <= records[i].mutation_rate
      /\ records[i].mutation_rate <= MaxMutationRate
      /\ records[i].unique_fitness_scores \in 0 .. population_size

\* ----------------------------------------------------------------------- C16
\* C16: the run terminates as soon as the stagnation counter, which counts the
\* generations whose best fitness did not strictly improve on the previous
\* one's and is reset by an improvement, exceeds the threshold: no generation
\* step runs after that.
C16_StagnationStops ==
  [][ ( pc = "evolve" /\ sel.counter > StagnationThreshold ) =>
        ( generation' = generation ) ]_vars

\* ----------------------------------------------------------------------- C17
\* C17: when evaluate_population_fitness returns, result i is the fitness of
\* population[i], whatever order the worker tasks completed in.
C17_ResultsByIndex ==
  ( /\ pc \in { "initial_fitness", "fitness" }
    /\ tasks # << >>
    /\ \A i \in DOMAIN tasks : tasks[i].state = "done" ) =>
    /\ Len(Results) = Len(population)
    /\ \A i \in DOMAIN population :
         Results[i] = Equation_get_diffusiophoretic_velocity(TheHeap, population[i])

\* the tasks completed in the reverse of the population's order and the two
\* members differ in fitness
C17_Witness ==
  /\ pc = "fitness"
  /\ Len(tasks) = 2
  /\ tasks[1].finished = 2
  /\ tasks[2].finished = 1
  /\ tasks[1].fitness # tasks[2].fitness

\* ----------------------------------------------------------------------- C18
\* C18: the engine leaves the evaluation of a generation, to select for the
\* next one or to return, only when every task of the generation has
\* completed, and while it selects, breeds or replaces the population no task
\* exists that has not completed.
C18_NoOverlap ==
  [][ /\ ( pc \in { "initial_fitness", "fitness" } /\ pc' \in { "loop", "broadcast" } ) =>
           ( \A i \in DOMAIN tasks : tasks[i].state = "done" )
      /\ ( pc' \in { "loop", "broadcast", "crossover", "mutate1", "mutate2" } ) =>
           ( \A i \in DOMAIN tasks' : tasks'[i].state = "done" ) ]_vars

\* selection for the second generation has begun
C18_Witness ==
  /\ pc = "crossover"
  /\ generation = 1
  /\ Len(records) = 1

\* ----------------------------------------------------------------------- C19
\* what the thread of run() does after a generation's broadcast: it selects
\* the parents of the next generation, or leaves the loop after the last
AfterBroadcast ==
  \/ SelectTournament
  \/ SelectRoulette
  \/ LoopExit

\* C19: a slow subscriber does not stall the engine: while update(record) of
\* generation N has not returned, the engine can go on to generation N + 1.
C19_SinkDoesNotStall ==
  pc = "broadcast" => ENABLED AfterBroadcast

\* ----------------------------------------------------------------------- C20
\* the fitness evaluation of a member of the population has raised
FitnessRaised == \E i \in DOMAIN tasks : tasks[i].state = "raised"

\* C20: once the fitness evaluation of a member has raised, the error is not
\* recovered: the run does nothing but end with that exception, it returns
\* no Equation, and the subscriber receives no record for the generation
\* being evaluated or for a later one.
C20_FitnessErrorAborts ==
  [][ FitnessRaised =>
        /\ FitnessRaised'
        /\ pc' \in { pc, "raised" }
        /\ pc' = "raised" => raised' \in { "ZeroDivisionError", "ValueError", "KeyError" }
        /\ result' = None
        /\ records' = records
        /\ \A i \in DOMAIN records' : records'[i].generation <= generation' ]_vars

\* a run that has completed a generation is ended by the error of a member
\* of the next one
C20_Witness ==
  /\ pc = "raised"
  /\ FitnessRaised
  /\ raised = "ZeroDivisionError"
  /\ generation >= 1
  /\ Len(records) = generation

\* ----------------------------------------------------------------------- C21
\* C21: when every fitness score of every generation is identical, the
\* mutation rate after evolve() is greater than or equal to the rate
\* configured, for every population size.
C21_IdenticalScoresDoNotLowerRate ==
  ( /\ pc = "manager"
    /\ sel.op = "evolve"
    /\ generation >= 1
    /\ sel.identical ) =>
    mutation_rate >= sel.initial_rate

\* ----------------------------------------------------------------------- C22
\* the Variable that a content holds under a name
Held(content, n) == CHOOSE v \in content : v.name = n

\* C22: for parents with the same names, the children a SinglePoint crossover
\* returns differ from the parents, as they were at the call, in one
\* parameter: there is a name n of a non-constant Variable such that child1
\* has parent2's value for n and child2 has parent1's value for n, every other
\* Variable of child1 equals parent1's and every other Variable of child2
\* equals parent2's.
C22_SinglePointSwapsOne ==
  ( /\ pc = "bred"
    /\ call.op \in { "single_point_crossover", "SinglePointCrossover.crossover" }
    /\ call.raised = "none"
    /\ Range(call.parent1_names) = Range(call.parent2_names) ) =>
    LET names == Range(call.parent1_names)
        c1 == Content(TheHeap, child1)
        c2 == Content(TheHeap, child2)
    IN /\ { v.name : v \in c1 } = names
       /\ { v.name : v \in c2 } = names
       /\ \E n \in names :
            /\ ~ Held(call.parent1_content, n).is_constant
            /\ Held(c1, n).value = Held(call.parent2_content, n).value
            /\ Held(c2, n).value = Held(call.parent1_content, n).value
            /\ \A m \in names \ { n } :
                 /\ Held(c1, m) = Held(call.parent1_content, m)
                 /\ Held(c2, m) = Held(call.parent2_content, m)

\* ----------------------------------------------------------------------- C23
\* C23: for parents with the same names, whatever the order they were
\* inserted in, the children a Uniform crossover returns hold, under every
\* name n, either parent1's and parent2's Variable of that name or parent2's
\* and parent1's: no parameter is lost or duplicated across the two.
C23_UniformKeepsOrSwaps ==
  ( /\ pc = "bred"
    /\ call.op = "uniform_crossover"
    /\ call.raised = "none"
    /\ Range(call.parent1_names) = Range(call.parent2_names) ) =>
    LET c1 == Content(TheHeap, child1)
        c2 == Content(TheHeap, child2)
    IN \A n \in Range(call.parent1_names) :
         /\ n \in { v.name : v \in c1 }
         /\ n \in { v.name : v \in c2 }
         /\ \/ /\ Held(c1, n) = Held(call.parent1_content, n)
               /\ Held(c2, n) = Held(call.parent2_content, n)
            \/ /\ Held(c1, n) = Held(call.parent2_content, n)
               /\ Held(c2, n) = Held(call.parent1_content, n)

\* ----------------------------------------------------------------------- C24
\* the Variables that the last mutation changed
ChangedByMutation == { vid \in DOMAIN variables : variables[vid] # call.variables[vid] }

\* C24: a step mutation changes at most one Variable of the Equation; that
\* Variable is not constant, only its value has changed, by at most 10% of
\* max_range - min_range, and the new value lies within [min_range,
\* max_range]; the Equation holds the Variables it held.
C24_StepMutationIsBounded ==
  ( pc = "mutation" /\ call.op \in { "GeneticAlgorithm.step_mutation", "StepMutation.mutate" } ) =>
    /\ equations = call.equations
    /\ Cardinality(ChangedByMutation) <= 1
    /\ \A vid \in ChangedByMutation :
         LET old == call.variables[vid]
             new == variables[vid]
             moved == IF new.value >= old.value THEN new.value - old.value
                      ELSE old.value - new.value
         IN /\ ~ old.is_constant
            /\ new = [ old EXCEPT !.value = new.value ]
            /\ 10 * moved <= old.max_range - old.min_range
            /\ old.min_range <= new.value
            /\ new.value <= old.max_range

\* ----------------------------------------------------------------------- C25
\* the percentage change from previous to best is below 10; previous is not 0
ChangeBelowTen(best, previous) ==
  IF previous > 0 THEN 100 * (best - previous) < 10 * previous
  ELSE 100 * (best - previous) < 10 * (0 - previous)

Increased(rate) == Min((rate * 12) \div 10, MaxMutationRate)
Decayed(rate) == Max((rate * 8) \div 10, MinMutationRate)

\* C25 as stated: for every pair of best and previous best fitness the call
\* adjusts the rate once, to min(rate x 1.2, 0.5) when the percentage change
\* is below 10 and to max(rate x 0.8, 0.01) otherwise; for a previous best of
\* 0, where the percentage is not defined, one of the two.
C25_OneAdjustmentForEveryPair ==
  ( pc = "manager" /\ call.op = "update_mutation_rate_by_fitness" ) =>
    IF call.previous_best_fitness = 0
    THEN mutation_rate \in { Increased(call.rate), Decayed(call.rate) }
    ELSE IF ChangeBelowTen(call.best_fitness, call.previous_best_fitness)
         THEN mutation_rate = Increased(call.rate)
         ELSE mutation_rate = Decayed(call.rate)

\* C25, amended: for every pair whose previous best fitness is not 0 the call
\* adjusts the rate once, to min(rate x 1.2, 0.5) when the percentage change
\* is below 10 and to max(rate x 0.8, 0.01) otherwise; for a previous best of
\* 0 it leaves the rate as it is.
C25_AdjustmentUnlessPreviousIsZero ==
  ( pc = "manager" /\ call.op = "update_mutation_rate_by_fitness" ) =>
    IF call.previous_best_fitness = 0
    THEN mutation_rate = call.rate
    ELSE IF ChangeBelowTen(call.best_fitness, call.previous_best_fitness)
         THEN mutation_rate = Increased(call.rate)
         ELSE mutation_rate = Decayed(call.rate)

\* a best fitness that doubled has lowered the rate of the tests, and the
\* rate was not at either of its limits
C25_Witness ==
  /\ pc = "manager"
  /\ call.op = "update_mutation_rate_by_fitness"
  /\ call.previous_best_fitness = 1
  /\ call.best_fitness = 2
  /\ call.rate = TestMutationRate
  /\ mutation_rate < TestMutationRate
  /\ mutation_rate > MinMutationRate

\* ----------------------------------------------------------------------- C26
\* the fitness of a member of the population
FitnessOf(e) == Equation_get_diffusiophoretic_velocity(TheHeap, e)

\* C26: after each generation step the population is ordered by descending
\* fitness, its head has the best fitness of the generation, and
\* best_equation is a member of the population with that fitness.
C26_PopulationSortedByFitness ==
  pc = "broadcast" =>
    /\ \A i, j \in DOMAIN population :
         i < j => FitnessOf(population[i]) >= FitnessOf(population[j])
    /\ \A i \in DOMAIN population :
         FitnessOf(population[1]) >= FitnessOf(population[i])
    /\ best_equation \in Range(population)
    /\ \A i \in DOMAIN population :
         FitnessOf(best_equation) >= FitnessOf(population[i])

\* ----------------------------------------------------------------------- C27
\* the parent that the last call of roulette_select_parent returned
RouletteParent == IF sel.at = "first" THEN parent1 ELSE parent2

\* C27: when all fitness scores are positive, roulette selection returns for
\* each parent a member of the population, the first one whose cumulative
\* normalized fitness is at least the value drawn; it never returns no value.
C27_RouletteReturnsMember ==
  ( /\ pc = "selection"
    /\ sel.op = "roulette"
    /\ \A i \in DOMAIN fitness_scores : fitness_scores[i] > 0 ) =>
    /\ RouletteParent # None
    /\ \E i \in DOMAIN population :
         /\ RouletteParent = population[i]
         /\ sel.random_value <= CummulativeProbabilities(fitness_scores, Len(fitness_scores))[i]
         /\ \A j \in 1 .. i - 1 :
              sel.random_value > CummulativeProbabilities(fitness_scores, Len(fitness_scores))[j]

\* ----------------------------------------------------------------------- C28
\* every value evaluate_fitness has returned to a task is the fitness of the
\* content its Equation holds
ReturnedFitnessIsCurrent ==
  \A i \in DOMAIN tasks :
    tasks[i].state = "done" => tasks[i].fitness = FitnessOf(population[i])

\* an entry's hash is the hash of its key's content at insertion, so a key
\* whose hash is still the stored one has kept its content
KeysKeepTheirContent ==
  \A i \in DOMAIN cached_fitness :
    cached_fitness[i].hash = Equation_hash(TheHeap, cached_fitness[i].key)

InResamplingLoop ==
  /\ pc = "selection"
  /\ sel.op = "strategy"
  /\ sel.at = "while"
  /\ Len(population) >= TournamentSize
  /\ \E i, j \in DOMAIN population :
       ~ Equation_eq(TheHeap, population[i], population[j])

\* C29: tournament selection terminates: on a population of at least 6 with
\* two content-distinct Equations the resampling loop for parent2 eventually
\* finds a parent content-distinct from parent1 and returns, under fair
\* random sampling.
C29_TournamentTerminates ==
  InResamplingLoop ~> (sel.at = "returned" /\ ~ Equation_eq(TheHeap, parent1, parent2))

\* the same as a condition on states: while the loop runs, some tournament
\* can return a member content-distinct from parent1
C29_DistinctParentIsPossible ==
  InResamplingLoop =>
    \E i \in TournamentSelection_tournament_select_parent(population, fitness_scores, TournamentSize) :
      ~ Equation_eq(TheHeap, population[i], parent1)

\* ----------------------------------------------------------------------- C30
\* the Equation holds every constant Variable of the registry its population
\* was built from, with the registry's value and the flag
HoldsTheConstants(e) ==
  \A i \in DOMAIN Registry :
    Registry[i].is_constant =>
      \E v \in Content(TheHeap, e) :
        /\ v.name = Registry[i].name
        /\ v.value = Registry[i].value
        /\ v.is_constant

\* C30: constants survive evolution: after any number of generation steps
\* (selection, uniform or single-point crossover, randomize or step mutation)
\* every Equation of the population still holds each constant Variable with
\* its initial value and its is_constant flag.
C30_ConstantsSurvive ==
  \A e \in Range(population \o new_population) : HoldsTheConstants(e)

\* two generations have been bred and the population holds Equations that
\* differ in what is not constant
C30_Witness ==
  /\ generation >= 2
  /\ \E a, b \in Range(population) : ~ Equation_eq(TheHeap, a, b)
  /\ \A e \in Range(population) : HoldsTheConstants(e)

====
